---------------------------- MODULE Spec2Model ----------------------------
(***************************************************************************)
(* rens-activity-pub: the signed-request authentication pipeline           *)
(* (Signature header parser, canonical string builder, remote key          *)
(* resolver, signature verifier) and the in-memory people store.           *)
(*                                                                         *)
(* Strings are sequences of one-character strings; byte strings are        *)
(* sequences of numbers in 0..255.                                         *)
(***************************************************************************)
EXTENDS Integers, Sequences, FiniteSets, TLC

VARIABLES
    people,      \* InMemoryPeopleStore.people: PersonId -> Person (a function on the ids stored)
    lockHolder,  \* the task holding the tokio Mutex around people, or NoTask
    task,        \* the GET /users/:id requests: task -> its position and locals
    nextKey,     \* the random source: the next RSA private key RsaPrivateKey::new draws
    generated,   \* history: the sequence of <<actor URI, private key>> Key::new produced
    req,         \* the POST /users/:id/inbox requests: request -> its position and locals
    pin,         \* the parsers alone: the input string
    pout,        \* the parsers alone: which parser ran on pin and what it returned
    ck           \* the keys alone: implementation, key, message, signature, verdict

vars == <<people, lockHolder, task, nextKey, generated, req, pin, pout, ck>>

storeVars == <<people, lockHolder, task, nextKey, generated>>
parseVars == <<pin, pout>>

-----------------------------------------------------------------------------
(* Bounds *)

MaxTasks == 3      \* concurrent GET /users/:id requests
MaxReqs == 1       \* concurrent POST /users/:id/inbox requests
MaxKeys == 2       \* private keys 1..MaxKeys the random source draws in the sign/verify check
MaxSalt == 1       \* PSS salts 0..MaxSalt
MaxMessage == 2    \* bytes of a message signed in the sign/verify check
MaxContent == 3    \* characters between the quotes of a quoted string under check
MaxSegments == 4   \* parameters of a Signature header value under check
MaxCovered == 2    \* covered header names of a signature string under rebuild
MaxReplays == 2    \* verifications run side by side or one after the other, requests repeated

-----------------------------------------------------------------------------
(* Characters and strings *)

DQ == "\""
BS == "\\"
SP == " "
LF == "\n"

Upper == <<"A","B","C","D","E","F","G","H","I","J","K","L","M",
           "N","O","P","Q","R","S","T","U","V","W","X","Y","Z">>
Lower == <<"a","b","c","d","e","f","g","h","i","j","k","l","m",
           "n","o","p","q","r","s","t","u","v","w","x","y","z">>
Digit == <<"0","1","2","3","4","5","6","7","8","9">>

Range(s) == {s[i] : i \in DOMAIN s}

IndexOf(c, s) == CHOOSE i \in DOMAIN s : s[i] = c

\* nom's alphanumeric1 accepts [A-Za-z0-9]; multispace0 accepts space, tab, CR, LF
Alphanumeric == Range(Upper) \cup Range(Lower) \cup Range(Digit)
Multispace == {" ", "\t", "\r", "\n"}

\* str::to_lowercase on the characters of the model
ToLowerChar(c) == IF c \in Range(Upper) THEN Lower[IndexOf(c, Upper)] ELSE c
to_lowercase(s) == [i \in DOMAIN s |-> ToLowerChar(s[i])]

\* the printable ASCII characters in code order, from 32 (space) to 126 (~); the
\* grave accent, which no string of the model holds, is written out
Ascii == <<" ","!",DQ,"#","$","%","&","'","(",")","*","+",",","-",".","/">>
         \o Digit \o <<":",";","<","=",">","?","@">>
         \o Upper \o <<"[",BS,"]","^","_","(grave)">>
         \o Lower \o <<"{","|","}","~">>

\* str::as_bytes on the characters of the model
CharCode(c) == IF c = "\n" THEN 10 ELSE IF c = "\t" THEN 9 ELSE IF c = "\r" THEN 13
               ELSE 31 + IndexOf(c, Ascii)
as_bytes(s) == [i \in DOMAIN s |-> CharCode(s[i])]

DropN(s, n) == SubSeq(s, n + 1, Len(s))
StartsWith(s, t) == Len(s) >= Len(t) /\ SubSeq(s, 1, Len(t)) = t

\* the length of the longest prefix of s whose characters are all in cls
PrefixLen(s, cls) ==
    LET out == {i \in DOMAIN s : s[i] \notin cls}
    IN  IF out = {} THEN Len(s) ELSE (CHOOSE i \in out : \A j \in out : i <= j) - 1

RECURSIVE Join(_, _)
Join(ss, sep) ==
    IF ss = <<>> THEN <<>>
    ELSE IF Len(ss) = 1 THEN ss[1]
    ELSE ss[1] \o sep \o Join(Tail(ss), sep)

\* str::split on a space: the pieces between single spaces, empty pieces kept
RECURSIVE SplitOn(_, _)
SplitOn(s, c) ==
    LET n == PrefixLen(s, Range(s) \ {c})
    IN  IF n = Len(s) THEN <<s>>
        ELSE <<SubSeq(s, 1, n)>> \o SplitOn(DropN(s, n + 1), c)

-----------------------------------------------------------------------------
(* The Signature header grammar: signature.rs, nom combinators.            *)
(* A parser returns [ok, rest, out]: nom's Ok((rest, out)) or Err(Error).  *)

POk(rest, out) == [ok |-> TRUE, rest |-> rest, out |-> out]
PErr(rest) == [ok |-> FALSE, rest |-> rest, out |-> <<>>]

tag(t, input) ==
    IF StartsWith(input, t) THEN POk(DropN(input, Len(t)), t) ELSE PErr(input)

multispace0(input) ==
    LET n == PrefixLen(input, Multispace) IN POk(DropN(input, n), SubSeq(input, 1, n))

alphanumeric1(input) ==
    LET n == PrefixLen(input, Alphanumeric)
    IN  IF n = 0 THEN PErr(input) ELSE POk(DropN(input, n), SubSeq(input, 1, n))

\* multispace0's result is dropped: the token is read from the input as given
token(input) == alphanumeric1(input)

\* delimited(tag("\\"), anychar, multispace0): the whitespace after the pair is consumed
quoted_pair(input) ==
    IF Len(input) >= 2 /\ Head(input) = BS
    THEN POk(multispace0(DropN(input, 2)).rest, input[2]) ELSE PErr(input)

\* many0(alt((qdtext, quoted_pair))), qdtext being one character that is neither
\* a backslash nor a quote, taken a run of qdtext characters at a time: the
\* characters up to the next backslash or quote, then a quoted pair if one stands
\* there, and so on until neither parses
RECURSIVE many0_qd(_)
many0_qd(input) ==
    LET n == PrefixLen(input, Range(input) \ {BS, DQ})
        run == SubSeq(input, 1, n)
        after == DropN(input, n)
        q == quoted_pair(after)
    IN  IF ~q.ok THEN POk(after, run)
        ELSE LET m == many0_qd(q.rest) IN POk(m.rest, run \o <<q.out>> \o m.out)

\* the closing quote of delimited(tag("\""), many0(..), tag("\"")), after the body
quoted_string_close(input, body) ==
    LET close == tag(<<DQ>>, body.rest)
    IN  IF ~close.ok THEN PErr(input) ELSE POk(close.rest, body.out)

quoted_string(input) ==
    LET open == tag(<<DQ>>, input)
    IN  IF ~open.ok THEN PErr(input)
        ELSE quoted_string_close(input, many0_qd(open.rest))

\* separated_pair(token, terminated(tag("="), multispace0), alt((token, quoted_string)))
\* alt((a, b)): the first alternative that parses
alt(a, b) == IF a.ok THEN a ELSE b

\* the pair of a key and the value parsed after it
separated_pair(input, key, v) ==
    IF ~v.ok THEN PErr(input) ELSE POk(v.rest, <<key, v.out>>)

param(input) ==
    LET k == token(input)
        eq == tag(<<"=">>, k.rest)
        after == multispace0(eq.rest).rest
    IN  IF ~k.ok THEN PErr(input)
        ELSE IF ~eq.ok THEN PErr(input)
        ELSE separated_pair(input, k.out, alt(token(after), quoted_string(after)))

\* delimited(multispace0, tag(","), multispace0)
comma(input) ==
    LET c == tag(<<",">>, multispace0(input).rest)
    IN  IF ~c.ok THEN PErr(input) ELSE POk(multispace0(c.rest).rest, <<",">>)

\* the string literals of signature.rs, and the text of a nom error
signature_rs ==
    [ Signature_ |->
          <<"S","i","g","n","a","t","u","r","e"," ">>,
      keyId |->
          <<"k","e","y","I","d">>,
      headers |->
          <<"h","e","a","d","e","r","s">>,
      signature |->
          <<"s","i","g","n","a","t","u","r","e">>,
      not_found |->
          <<" ","n","o","t"," ","f","o","u","n","d">>,
      nom_error |->
          <<"P","a","r","s","i","n","g"," ","E","r","r","o","r">> ]

\* a faulty variant: the prefix never taken off
buggy_prefix_kept(input) == POk(input, <<>>)

\* opt(tag("Signature "))
buggy_prefix(input) ==
    LET p == tag(signature_rs.Signature_, input) IN IF p.ok THEN p ELSE POk(input, <<>>)

\* nom::multi::separated_list0(comma, param): the list ends, without an error, at
\* the first separator or element that does not parse
RECURSIVE separated_list0_rest(_, _)
RECURSIVE separated_list0_elem(_, _, _)
\* f is what param made of the input after the separator, or of the whole input
\* for the first element
separated_list0_elem(input, res, f) ==
    IF ~f.ok THEN POk(input, res) ELSE separated_list0_rest(f.rest, Append(res, f.out))

separated_list0_rest(input, res) ==
    LET s == comma(input)
    IN  IF ~s.ok THEN POk(input, res) ELSE separated_list0_elem(input, res, param(s.rest))

separated_list0(input) == separated_list0_elem(input, <<>>, param(input))

params(input) == separated_list0(buggy_prefix(input).rest)

None == <<>>
Some(v) == <<v>>

\* for (key, value) in params { match key { ... } }: a later parameter of the same
\* key overwrites an earlier one, other keys are skipped
RECURSIVE assign_params(_, _)
assign_params(ps, acc) ==
    IF ps = <<>> THEN acc
    ELSE LET key == ps[1][1]
             value == ps[1][2]
             next == IF key = signature_rs.keyId THEN [acc EXCEPT !.key_id = Some(value)]
                     ELSE IF key = signature_rs.headers THEN [acc EXCEPT !.headers = Some(value)]
                     ELSE IF key = signature_rs.signature THEN [acc EXCEPT !.signature = Some(value)]
                     ELSE acc
         IN  assign_params(Tail(ps), next)

NoParams == [key_id |-> None, headers |-> None, signature |-> None]

NoSignature == [key_id |-> <<>>, headers |-> <<>>, signature |-> <<>>]
SigOk(sig) == [ok |-> TRUE, panic |-> FALSE, err |-> <<>>, sig |-> sig]
SigErr(msg) == [ok |-> FALSE, panic |-> FALSE, err |-> msg, sig |-> NoSignature]
SigPanic == [ok |-> FALSE, panic |-> TRUE, err |-> <<>>, sig |-> NoSignature]

\* crates/rap-server/src/signature.rs: Signature::from_headers -> Result<Self, Box<dyn Error>>
\* a faulty variant: a header value without headers= read as covering no header
from_params_default_headers(p) ==
    LET a == assign_params(p.out, NoParams)
    IN  IF ~p.ok THEN SigErr(signature_rs.nom_error)
        ELSE IF a.key_id = None THEN SigErr(signature_rs.keyId \o signature_rs.not_found)
        ELSE IF a.signature = None THEN SigErr(signature_rs.signature \o signature_rs.not_found)
        ELSE SigOk([key_id |-> a.key_id[1],
                    headers |-> IF a.headers = None THEN <<>> ELSE SplitOn(a.headers[1], SP),
                    signature |-> a.signature[1]])

\* from the second statement of from_headers on, p being what params(signature) returned
from_params(p) ==
    LET a == assign_params(p.out, NoParams)
    IN  IF ~p.ok THEN SigErr(signature_rs.nom_error)
        ELSE IF a.key_id = None THEN SigErr(signature_rs.keyId \o signature_rs.not_found)
        ELSE IF a.headers = None THEN SigErr(signature_rs.headers \o signature_rs.not_found)
        ELSE IF a.signature = None THEN SigErr(signature_rs.signature \o signature_rs.not_found)
        ELSE SigOk([key_id |-> a.key_id[1],
                    headers |-> SplitOn(a.headers[1], SP),
                    signature |-> a.signature[1]])

from_headers(signature) == from_params(params(signature))

\* rap-server/src/signature.rs: Signature::from_headers -> Self, every step unwrapped
from_params_unwrap(p) ==
    LET a == assign_params(p.out, NoParams)
    IN  IF ~p.ok THEN SigPanic
        ELSE IF a.key_id = None THEN SigPanic
        ELSE IF a.headers = None THEN SigPanic
        ELSE IF a.signature = None THEN SigPanic
        ELSE SigOk([key_id |-> a.key_id[1],
                    headers |-> SplitOn(a.headers[1], SP),
                    signature |-> a.signature[1]])

from_headers_unwrap(signature) == from_params_unwrap(params(signature))

-----------------------------------------------------------------------------
(* utils.rs: base64_decode, the STANDARD engine: the standard alphabet,      *)
(* canonical padding required, no non-zero trailing bits.                    *)

B64Alphabet == Upper \o Lower \o Digit \o <<"+","/">>
B64Val(c) == IndexOf(c, B64Alphabet) - 1

RECURSIVE PadLen(_)
PadLen(s) == IF s = <<>> \/ s[Len(s)] # "=" THEN 0 ELSE 1 + PadLen(SubSeq(s, 1, Len(s) - 1))

RECURSIVE DecodeSextets(_)
DecodeSextets(v) ==
    IF Len(v) >= 4
    THEN <<v[1] * 4 + v[2] \div 16, (v[2] % 16) * 16 + v[3] \div 4, (v[3] % 4) * 64 + v[4]>>
         \o DecodeSextets(DropN(v, 4))
    ELSE IF Len(v) = 3 THEN <<v[1] * 4 + v[2] \div 16, (v[2] % 16) * 16 + v[3] \div 4>>
    ELSE IF Len(v) = 2 THEN <<v[1] * 4 + v[2] \div 16>>
    ELSE <<>>

\* the texts of base64::DecodeError
utils_rs ==
    [ Invalid_byte |->
          <<"I","n","v","a","l","i","d"," ","b","y","t","e">>,
      Invalid_padding |->
          <<"I","n","v","a","l","i","d"," ","p","a","d","d","i","n","g">>,
      Invalid_last_symbol |->
          <<"I","n","v","a","l","i","d"," ","l","a","s","t"," ","s","y","m","b","o","l">> ]

base64_decode(data) ==
    LET npad == PadLen(data)
        body == SubSeq(data, 1, Len(data) - npad)
        v == [i \in DOMAIN body |-> B64Val(body[i])]
    IN  IF \E i \in DOMAIN body : body[i] \notin Range(B64Alphabet)
        THEN [ok |-> FALSE, err |-> utils_rs.Invalid_byte, bytes |-> <<>>]
        ELSE IF Len(data) % 4 # 0 \/ npad > 2
        THEN [ok |-> FALSE, err |-> utils_rs.Invalid_padding, bytes |-> <<>>]
        ELSE IF (npad = 1 /\ v[Len(v)] % 4 # 0) \/ (npad = 2 /\ v[Len(v)] % 16 # 0)
        THEN [ok |-> FALSE, err |-> utils_rs.Invalid_last_symbol, bytes |-> <<>>]
        ELSE [ok |-> TRUE, err |-> <<>>, bytes |-> DecodeSextets(v)]

\* what a signing peer does: the STANDARD encoding of a byte string
RECURSIVE EncodeBytes(_)
EncodeBytes(b) ==
    LET c(n) == B64Alphabet[n + 1]
    IN  IF Len(b) >= 3
        THEN <<c(b[1] \div 4), c((b[1] % 4) * 16 + b[2] \div 16),
               c((b[2] % 16) * 4 + b[3] \div 64), c(b[3] % 64)>> \o EncodeBytes(DropN(b, 3))
        ELSE IF Len(b) = 2
        THEN <<c(b[1] \div 4), c((b[1] % 4) * 16 + b[2] \div 16), c((b[2] % 16) * 4), "=">>
        ELSE IF Len(b) = 1
        THEN <<c(b[1] \div 4), c((b[1] % 4) * 16), "=", "=">>
        ELSE <<>>

-----------------------------------------------------------------------------
(* The rsa crate, idealised: a signature is readable only as the bytes a     *)
(* signing key made for exactly that scheme, key and message.  A private key *)
(* is a number in 1..255 drawn from the random source; its public key is     *)
(* the same number.  PSS draws a random salt, PKCS#1 v1.5 draws none.        *)

SchemeByte(scheme) == IF scheme = "pkcs1v15" THEN 1 ELSE 2
SaltsOf(scheme) == IF scheme = "pkcs1v15" THEN {0} ELSE 0..MaxSalt

RsaSign(scheme, private_key, data, salt) ==
    <<SchemeByte(scheme), private_key, IF scheme = "pkcs1v15" THEN 0 ELSE salt>> \o data

RsaVerify(scheme, public_key, data, sig) ==
    /\ Len(sig) >= 3
    /\ sig[1] = SchemeByte(scheme)
    /\ sig[2] = public_key
    /\ sig[3] \in SaltsOf(scheme)
    /\ DropN(sig, 3) = data

to_public_key(private_key) == private_key

to_pkcs8_pem(private_key) == [pem |-> "PRIVATE KEY", key |-> private_key]
to_public_key_pem(public_key) == [pem |-> "PUBLIC KEY", key |-> public_key]
GarbagePem == [pem |-> "garbage", key |-> 0]

from_pkcs8_pem(pem) == [ok |-> pem.pem = "PRIVATE KEY", key |-> pem.key]
from_public_key_pem(pem) == [ok |-> pem.pem = "PUBLIC KEY", key |-> pem.key]

\* the texts of the errors of the rsa crate
crypto_rs ==
    [ pem_error |->
          <<"S","P","K","I"," ","e","r","r","o","r">>,
      verification_error |->
          <<"s","i","g","n","a","t","u","r","e"," ","e","r","r","o","r",":"," ","v","e","r","i","f","i","c","a","t","i","o","n"," ","e","r","r","o","r">>,
      rng_error |->
          <<"r","n","g"," ","e","r","r","o","r">> ]

ROk(v) == [ok |-> TRUE, err |-> <<>>, val |-> v]
RErr(e) == [ok |-> FALSE, err |-> e, val |-> <<>>]

\* the random source: rnd is the private key drawn, or 0 when the generator fails
RsaPrivateKey_new(rnd) == IF rnd = 0 THEN RErr(crypto_rs.rng_error) ELSE ROk(rnd)

-----------------------------------------------------------------------------
(* crypto.rs: PKCS#1 v1.5 with SHA-256 *)

generate_keypair(rnd) ==
    LET private_key == RsaPrivateKey_new(rnd)
    IN  IF ~private_key.ok THEN private_key
        ELSE ROk(<<to_pkcs8_pem(private_key.val),
                   to_public_key_pem(to_public_key(private_key.val))>>)

\* a faulty variant: the signer on RSASSA-PSS, the verifier left on PKCS#1 v1.5
crypto_sign_pss(key_pem, data, salt) ==
    LET key == from_pkcs8_pem(key_pem)
    IN  IF ~key.ok THEN RErr(crypto_rs.pem_error)
        ELSE ROk(RsaSign("pss", key.key, data, salt))

crypto_sign(key_pem, data, salt) ==
    LET key == from_pkcs8_pem(key_pem)
    IN  IF ~key.ok THEN RErr(crypto_rs.pem_error)
        ELSE ROk(RsaSign("pkcs1v15", key.key, data, salt))

\* a faulty variant: a signature that has not the length of one refused apart,
\* before the verifier runs
crypto_verify_length_first(key_pem, msg, sig) ==
    LET key == from_public_key_pem(key_pem)
    IN  IF ~key.ok THEN RErr(crypto_rs.pem_error)
        ELSE IF Len(sig) # Len(RsaSign("pkcs1v15", key.key, msg, 0))
        THEN RErr(SubSeq(crypto_rs.verification_error, 1, 15))
        ELSE IF ~RsaVerify("pkcs1v15", key.key, msg, sig) THEN RErr(crypto_rs.verification_error)
        ELSE ROk(<<>>)

crypto_verify(key_pem, msg, sig) ==
    LET key == from_public_key_pem(key_pem)
    IN  IF ~key.ok THEN RErr(crypto_rs.pem_error)
        ELSE IF ~RsaVerify("pkcs1v15", key.key, msg, sig) THEN RErr(crypto_rs.verification_error)
        ELSE ROk(<<>>)

-----------------------------------------------------------------------------
(* crates/rap-server/src/key.rs: Key and PublicKey over crypto.rs *)

\* the string literal of key.rs, and the texts of the errors of reqwest
key_rs ==
    [ main_key |->
          <<"/","#","m","a","i","n","-","k","e","y">>,
      send_error |->
          <<"e","r","r","o","r"," ","s","e","n","d","i","n","g"," ","r","e","q","u","e","s","t">>,
      decode_error |->
          <<"e","r","r","o","r"," ","d","e","c","o","d","i","n","g"," ","r","e","s","p","o","n","s","e"," ","b","o","d","y">> ]

Key_new(owner, rnd) ==
    LET pair == generate_keypair(rnd)
    IN  IF ~pair.ok THEN pair
        ELSE ROk([owner |-> owner, private_key_pem |-> pair.val[1],
                  public_key_pem |-> pair.val[2]])

Key_public_key(key) ==
    [id |-> key.owner \o key_rs.main_key, owner |-> key.owner,
     public_key_pem |-> key.public_key_pem]

Key_sign(key, data, salt) == crypto_sign(key.private_key_pem, data, salt)

PublicKey_verify(pubkey, data, sig) == crypto_verify(pubkey.public_key_pem, data, sig)

-----------------------------------------------------------------------------
(* rap-server/src/key.rs: the Key that holds an RsaPrivateKey and signs with *)
(* RSASSA-PSS                                                               *)

Key_new_pss(owner, rnd) ==
    LET private_key == RsaPrivateKey_new(rnd)
    IN  IF ~private_key.ok THEN private_key
        ELSE ROk([owner |-> owner, private_key |-> private_key.val])

Key_public_key_pss(key) ==
    [id |-> key.owner \o key_rs.main_key, owner |-> key.owner,
     public_key_pem |-> to_public_key_pem(to_public_key(key.private_key))]

Key_sign_pss(key, data, salt) == ROk(RsaSign("pss", key.private_key, data, salt))

PublicKey_verify_pss(pubkey, data, sig) ==
    LET public_key == from_public_key_pem(pubkey.public_key_pem)
    IN  IF ~public_key.ok THEN RErr(crypto_rs.pem_error)
        ELSE IF ~RsaVerify("pss", public_key.key, data, sig) THEN RErr(crypto_rs.verification_error)
        ELSE ROk(<<>>)

-----------------------------------------------------------------------------
(* users.rs: Person, the GET /users/:id handler and InMemoryPeopleStore *)

\* the string literals of users.rs
users_rs ==
    [ users_prefix |->
          <<"h","t","t","p","s",":","/","/","a","p",".","r","e","n","s",".","p","a","g","e","/","u","s","e","r","s","/">>,
      inbox |->
          <<"/","i","n","b","o","x">> ]

ActorIds == {<<"a">>, <<"b">>}

Tasks == 1..MaxTasks
NoTask == 0

NoPerson ==
    [id |-> <<>>,
     key |-> [owner |-> <<>>, private_key_pem |-> GarbagePem, public_key_pem |-> GarbagePem]]
NoResponse == [status |-> 0, msg |-> <<>>]

Person_new(id, rnd) ==
    LET uri == users_rs.users_prefix \o id
        key == Key_new(uri, rnd)
    IN  IF ~key.ok THEN key ELSE ROk([id |-> uri, key |-> key.val])

\* a faulty variant: the Key itself, which derives Serialize, put under publicKey
PersonJson_whole_key(person) ==
    [id |-> person.id, type |-> "Person", inbox |-> person.id \o users_rs.inbox,
     publicKey |-> person.key]

\* the JSON document users::json answers with
PersonJson(person) ==
    [id |-> person.id, type |-> "Person", inbox |-> person.id \o users_rs.inbox,
     publicKey |-> Key_public_key(person.key)]

HashMap_insert(map, k, v) ==
    [x \in DOMAIN map \cup {k} |-> IF x = k THEN v ELSE map[x]]

IdleTask == [pc |-> "idle", id |-> <<>>, person |-> NoPerson, body |-> <<>>]

InitStore ==
    /\ people = [x \in {} |-> NoPerson]
    /\ lockHolder = NoTask
    /\ task = [t \in Tasks |-> IdleTask]
    /\ nextKey = 1
    /\ generated = <<>>

\* users::json: people.get_or_create(&actor).await, up to self.people.lock().await
users_json(t, actor) ==
    /\ task[t].pc = "idle"
    /\ task' = [task EXCEPT ![t] = [@ EXCEPT !.pc = "lock", !.id = actor]]
    /\ UNCHANGED <<people, lockHolder, nextKey, generated, req, parseVars, ck>>

\* a faulty variant: a lock that excludes nobody
MutexNoExclusion == TRUE

\* tokio::sync::Mutex: lock().await returns only while no other task holds the guard
MutexFree == lockHolder = NoTask

\* let mut people = self.people.lock().await;
lock(t) ==
    /\ task[t].pc = "lock"
    /\ MutexFree
    /\ lockHolder' = t
    /\ task' = [task EXCEPT ![t].pc = "locked"]
    /\ UNCHANGED <<people, nextKey, generated, req, parseVars, ck>>

\* a faulty variant: the id taken for a new one without looking
contains_key_skipped(t) ==
    /\ task[t].pc = "locked"
    /\ task' = [task EXCEPT ![t].pc = "new"]
    /\ UNCHANGED <<people, lockHolder, nextKey, generated, req, parseVars, ck>>

\* if !people.contains_key(id)
contains_key(t) ==
    /\ task[t].pc = "locked"
    /\ task' = [task EXCEPT ![t].pc =
                    IF task[t].id \in DOMAIN people THEN "get" ELSE "new"]
    /\ UNCHANGED <<people, lockHolder, nextKey, generated, req, parseVars, ck>>

\* a faulty variant: the guard not dropped when the key generation panics
new_person_guard_kept(t, rnd) ==
    /\ task[t].pc = "new"
    /\ LET person == Person_new(task[t].id, rnd)
       IN  IF person.ok
           THEN /\ task' = [task EXCEPT ![t] = [@ EXCEPT !.pc = "insert",
                                                        !.person = person.val]]
                /\ nextKey' = nextKey + 1
                /\ generated' = Append(generated, <<person.val.id, rnd>>)
                /\ UNCHANGED <<people, lockHolder>>
           ELSE /\ task' = [task EXCEPT ![t].pc = "panicked"]
                /\ UNCHANGED <<people, lockHolder, nextKey, generated>>
    /\ UNCHANGED <<req, parseVars, ck>>

\* let person = Person::new(id.clone()).unwrap(): a failed key generation panics,
\* and the unwinding drops the guard
new_person(t, rnd) ==
    /\ task[t].pc = "new"
    /\ LET person == Person_new(task[t].id, rnd)
       IN  IF person.ok
           THEN /\ task' = [task EXCEPT ![t] = [@ EXCEPT !.pc = "insert",
                                                        !.person = person.val]]
                /\ nextKey' = nextKey + 1
                /\ generated' = Append(generated, <<person.val.id, rnd>>)
                /\ UNCHANGED <<people, lockHolder>>
           ELSE /\ task' = [task EXCEPT ![t].pc = "panicked"]
                /\ lockHolder' = NoTask
                /\ UNCHANGED <<people, nextKey, generated>>
    /\ UNCHANGED <<req, parseVars, ck>>

\* people.insert(id.clone(), person);
insert(t) ==
    /\ task[t].pc = "insert"
    /\ people' = HashMap_insert(people, task[t].id, task[t].person)
    /\ task' = [task EXCEPT ![t] = [@ EXCEPT !.pc = "get", !.person = NoPerson]]
    /\ UNCHANGED <<lockHolder, nextKey, generated, req, parseVars, ck>>

\* a faulty variant: the call returns with the guard still held
get_clone_guard_kept(t) ==
    /\ task[t].pc = "get"
    /\ IF task[t].id \in DOMAIN people
       THEN task' = [task EXCEPT ![t] = [@ EXCEPT !.pc = "returned",
                                                  !.person = people[task[t].id]]]
       ELSE task' = [task EXCEPT ![t].pc = "panicked"]
    /\ UNCHANGED <<people, lockHolder, nextKey, generated, req, parseVars, ck>>

\* let p = people.get(id).unwrap(); return Ok(p.clone()); the guard is dropped
get_clone(t) ==
    /\ task[t].pc = "get"
    /\ IF task[t].id \in DOMAIN people
       THEN task' = [task EXCEPT ![t] = [@ EXCEPT !.pc = "returned",
                                                  !.person = people[task[t].id]]]
       ELSE task' = [task EXCEPT ![t].pc = "panicked"]
    /\ lockHolder' = NoTask
    /\ UNCHANGED <<people, nextKey, generated, req, parseVars, ck>>

\* Ok(Json(json!({... "publicKey": person.key.public_key() ...})))
respond(t) ==
    /\ task[t].pc = "returned"
    /\ task' = [task EXCEPT ![t] = [@ EXCEPT !.pc = "done",
                                           !.body = <<PersonJson(task[t].person)>>]]
    /\ UNCHANGED <<people, lockHolder, nextKey, generated, req, parseVars, ck>>

-----------------------------------------------------------------------------
(* crates/rap-server/src/utils.rs: web errors.  web_err logs its message at  *)
(* warning level and returns (status, message).                             *)

web_err(status, msg) == [status |-> status, msg |-> msg]
web_err_500(msg) == web_err(500, msg)
web_err_400(msg) == web_err(400, msg)

-----------------------------------------------------------------------------
(* signed.rs: the Signed extractor *)

\* the string literals of signed.rs
signed_rs ==
    [ No_header |->
          <<"N","o"," ","h","e","a","d","e","r"," ">>,
      Invalid_header |->
          <<"I","n","v","a","l","i","d"," ","h","e","a","d","e","r"," ">>,
      Error_parsing |->
          <<"E","r","r","o","r"," ","p","a","r","s","i","n","g"," ","s","i","g","n","a","t","u","r","e",":"," ">>,
      Error_decoding |->
          <<"E","r","r","o","r"," ","d","e","c","o","d","i","n","g"," ","s","i","g","n","a","t","u","r","e",":"," ">>,
      Error_loading |->
          <<"E","r","r","o","r"," ","l","o","a","d","i","n","g"," ","p","u","b","l","i","c"," ","k","e","y",":"," ">>,
      Error_verifying |->
          <<"E","r","r","o","r"," ","v","e","r","i","f","y","i","n","g"," ","s","i","g","n","a","t","u","r","e",":"," ">>,
      path_error |->
          <<"C","o","u","l","d"," ","n","o","t"," ","e","x","t","r","a","c","t"," ","p","e","r","s","o","n","_","i","d"," ","f","r","o","m"," ","p","a","t","h">>,
      request_target |->
          <<"(","r","e","q","u","e","s","t","-","t","a","r","g","e","t",")">>,
      post_users |->
          <<"(","r","e","q","u","e","s","t","-","t","a","r","g","e","t",")",":"," ","p","o","s","t"," ","/","u","s","e","r","s","/">> ]

\* the string literal of inbox.rs, and the text of the rejection of the Json extractor
inbox_rs ==
    [ Not_implemented |->
          <<"N","o","t"," ","i","m","p","l","e","m","e","n","t","e","d">>,
      body_error |->
          <<"F","a","i","l","e","d"," ","t","o"," ","p","a","r","s","e"," ","t","h","e"," ","r","e","q","u","e","s","t"," ","b","o","d","y"," ","a","s"," ","J","S","O","N">> ]

\* a header value byte outside visible ASCII
NonAscii == "(0xFF)"

\* HeaderMap::get: names are stored in lower case and looked up without regard to
\* case; a string that is no header name finds nothing
HeaderMap_get(headers, name) ==
    IF to_lowercase(name) \in DOMAIN headers THEN Some(headers[to_lowercase(name)]) ELSE None

\* HeaderValue::to_str: only visible ASCII
to_str(value) ==
    IF \A i \in DOMAIN value : value[i] \in Range(Ascii) \cup {"\t"}
    THEN ROk(value) ELSE RErr(<<>>)

\* a faulty variant: an absent header read as an empty one
header_str_lenient(headers, name) ==
    LET h == HeaderMap_get(headers, name)
    IN  IF h = None THEN ROk(<<>>)
        ELSE IF ~to_str(h[1]).ok THEN RErr(web_err_400(signed_rs.Invalid_header \o name))
        ELSE ROk(h[1])

header_str(headers, name) ==
    LET h == HeaderMap_get(headers, name)
    IN  IF h = None THEN RErr(web_err_400(signed_rs.No_header \o name))
        ELSE IF ~to_str(h[1]).ok THEN RErr(web_err_400(signed_rs.Invalid_header \o name))
        ELSE ROk(h[1])

\* a faulty variant: no line for a covered header the request does not carry
sig_line_skip_absent(account, headers, header) ==
    IF header = signed_rs.request_target
    THEN signed_rs.post_users \o account \o users_rs.inbox
    ELSE LET name == to_lowercase(header)
             h == header_str(headers, name)
         IN  IF h.ok THEN name \o <<":", " ">> \o h.val ELSE <<>>

\* a faulty variant: the covered name put out as the signer wrote it
sig_line_as_given(account, headers, header) ==
    IF header = signed_rs.request_target
    THEN signed_rs.post_users \o account \o users_rs.inbox
    ELSE LET h == header_str(headers, header)
             value == IF h.ok THEN h.val ELSE <<>>
         IN  header \o <<":", " ">> \o value

\* one line of the string to compare against, for one covered header
sig_line(account, headers, header) ==
    IF header = signed_rs.request_target
    THEN signed_rs.post_users \o account \o users_rs.inbox
    ELSE LET name == to_lowercase(header)
             h == header_str(headers, name)
             value == IF h.ok THEN h.val ELSE <<>>
         IN  name \o <<":", " ">> \o value

rebuild_sig_str(account, headers, signature) ==
    Join([i \in DOMAIN signature.headers |-> sig_line(account, headers, signature.headers[i])],
         <<LF>>)

\* the warnings header_str logs, through web_err_400, for the covered headers
\* rebuild_sig_str does not find
RECURSIVE rebuild_warnings(_, _)
rebuild_warnings(headers, covered) ==
    IF covered = <<>> THEN <<>>
    ELSE LET h == header_str(headers, to_lowercase(covered[1]))
         IN  (IF covered[1] # signed_rs.request_target /\ ~h.ok THEN <<h.err.msg>> ELSE <<>>)
             \o rebuild_warnings(headers, Tail(covered))

\* key.rs: PublicKey::from_remote on the answer to GET id: send().await? fails when
\* the request does, resp.json::<Actor>().await? when the body is no Actor document;
\* the status is not looked at
from_remote(resp) ==
    IF ~resp.net THEN RErr(key_rs.send_error)
    ELSE IF ~resp.json \/ ~({"id", "inbox", "publicKey"} \subseteq resp.has) THEN RErr(key_rs.decode_error)
    ELSE ROk(resp.publicKey)

NoPublicKey == [id |-> <<>>, owner |-> <<>>, public_key_pem |-> GarbagePem]
NoAnswer == [net |-> FALSE, status |-> 0, json |-> FALSE, has |-> {}, publicKey |-> NoPublicKey]

\* verify_headers up to PublicKey::from_remote(&signature.key_id).await
VhState(done, res, steps, warns, signature, decoded, comparison) ==
    [done |-> done, res |-> res, steps |-> steps, warns |-> warns,
     signature |-> signature, decoded |-> decoded, comparison |-> comparison]

\* a variant: the key resolved right after the header is parsed, before the
\* signature value is decoded
verify_headers_resolve_first(headers, actor, s) ==
    LET e2 == web_err_400(signed_rs.Error_parsing \o s.err)
    IN  IF ~s.ok
        THEN VhState(TRUE, RErr(e2), <<"extract", "parse">>, <<e2.msg>>, NoSignature, <<>>, <<>>)
        ELSE VhState(FALSE, ROk(<<>>), <<"extract", "parse", "resolve">>, <<>>,
                     s.sig, <<>>, <<>>)

\* a faulty variant: a signature value that does not decode found out only after
\* the key fetch
verify_headers_decode_late(headers, actor, s) ==
    LET e2 == web_err_400(signed_rs.Error_parsing \o s.err)
        d == base64_decode(s.sig.signature)
    IN  IF ~s.ok
        THEN VhState(TRUE, RErr(e2), <<"extract", "parse">>, <<e2.msg>>, NoSignature, <<>>, <<>>)
        ELSE VhState(FALSE, ROk(<<>>), <<"extract", "parse", "decode", "build", "resolve">>,
                     rebuild_warnings(headers, s.sig.headers), s.sig, d.bytes,
                     rebuild_sig_str(actor, headers, s.sig))

\* verify_headers from Signature::from_headers(signature_header) on, s being what
\* that call returned
verify_headers_parsed(headers, actor, s) ==
    LET e2 == web_err_400(signed_rs.Error_parsing \o s.err)
        d == base64_decode(s.sig.signature)
        e3 == web_err_400(signed_rs.Error_decoding \o d.err)
    IN  IF ~s.ok
        THEN VhState(TRUE, RErr(e2), <<"extract", "parse">>, <<e2.msg>>, NoSignature, <<>>, <<>>)
        ELSE IF ~d.ok
        THEN VhState(TRUE, RErr(e3), <<"extract", "parse", "decode">>, <<e3.msg>>,
                     s.sig, <<>>, <<>>)
        ELSE VhState(FALSE, ROk(<<>>), <<"extract", "parse", "decode", "build", "resolve">>,
                     rebuild_warnings(headers, s.sig.headers), s.sig, d.bytes,
                     rebuild_sig_str(actor, headers, s.sig))

verify_headers_begin(headers, actor) ==
    LET h == header_str(headers, signature_rs.signature)
    IN  IF ~h.ok
        THEN VhState(TRUE, h, <<"extract">>, <<h.err.msg>>, NoSignature, <<>>, <<>>)
        ELSE verify_headers_parsed(headers, actor, from_headers(h.val))

\* verify_headers from the answer of the remote on
verify_headers_end(vh, resp) ==
    LET pubkey == from_remote(resp)
        e4 == web_err_400(signed_rs.Error_loading \o pubkey.err)
        v == PublicKey_verify(pubkey.val, as_bytes(vh.comparison), vh.decoded)
        e5 == web_err_400(signed_rs.Error_verifying \o v.err)
    IN  IF ~pubkey.ok
        THEN [vh EXCEPT !.done = TRUE, !.res = RErr(e4), !.warns = @ \o <<e4.msg>>]
        ELSE IF ~v.ok
        THEN [vh EXCEPT !.done = TRUE, !.res = RErr(e5), !.steps = @ \o <<"verify">>,
                        !.warns = @ \o <<e5.msg>>]
        ELSE [vh EXCEPT !.done = TRUE, !.res = ROk(<<>>), !.steps = @ \o <<"verify">>]

\* {:?} of a str: in quotes, the quotes and backslashes in it escaped
RECURSIVE str_fmt(_)
str_fmt(str) ==
    IF str = <<>> THEN <<>>
    ELSE IF Len(str) = 1 THEN (IF str[1] \in {DQ, BS} THEN <<BS, str[1]>> ELSE str)
    ELSE str_fmt(SubSeq(str, 1, Len(str) \div 2)) \o str_fmt(DropN(str, Len(str) \div 2))

\* {:?} of a HeaderMap: {"name": "value", ...}, in the order the map holds them
RECURSIVE HeaderMap_fmt(_)
HeaderMap_fmt(headers) ==
    IF DOMAIN headers = {} THEN <<>>
    ELSE LET name == CHOOSE h \in DOMAIN headers : TRUE
             rest == [h \in DOMAIN headers \ {name} |-> headers[h]]
         IN  <<DQ>> \o str_fmt(name) \o <<DQ, ":", " ", DQ>> \o str_fmt(headers[name]) \o <<DQ>>
             \o (IF DOMAIN rest = {} THEN <<>> ELSE <<",", " ">> \o HeaderMap_fmt(rest))

\* rap-server/src/inbox.rs: its verify_headers from the answer of the remote on:
\* pubkey.verify(&decoded_signature, comparison.as_bytes()), by the PublicKey of
\* rap-server/src/key.rs, and the headers logged with a failed verification
verify_headers_end_inbox(headers, vh, resp) ==
    LET pubkey == from_remote(resp)
        e4 == web_err_400(signed_rs.Error_loading \o pubkey.err)
        v == PublicKey_verify_pss(pubkey.val, vh.decoded, as_bytes(vh.comparison))
        e5 == web_err_400(signed_rs.Error_verifying \o v.err)
    IN  IF ~pubkey.ok
        THEN [vh EXCEPT !.done = TRUE, !.res = RErr(e4), !.warns = @ \o <<e4.msg>>]
        ELSE IF ~v.ok
        THEN [vh EXCEPT !.done = TRUE, !.res = RErr(e5), !.steps = @ \o <<"verify">>,
                        !.warns = @ \o <<e5.msg \o <<".", " ", "{">> \o HeaderMap_fmt(headers) \o <<"}">> >>]
        ELSE [vh EXCEPT !.done = TRUE, !.res = ROk(<<>>), !.steps = @ \o <<"verify">>]

\* a faulty variant: once a request has been Signed, the later ones are refused
from_request_parts_once(path_ok, vh) ==
    IF ~path_ok THEN RErr(web_err_500(signed_rs.path_error))
    ELSE IF ~vh.ok THEN RErr(vh.err)
    ELSE IF \E r \in DOMAIN req : req[r].signed THEN RErr(web_err_400(<<>>))
    ELSE ROk(<<>>)

\* a faulty variant: the result of verify_headers dropped
from_request_parts_unchecked(path_ok, vh) ==
    IF ~path_ok THEN RErr(web_err_500(signed_rs.path_error)) ELSE ROk(<<>>)

\* Signed::from_request_parts, given whether the path held a person id and what
\* verify_headers returned
from_request_parts(path_ok, vh) ==
    IF ~path_ok THEN RErr(web_err_500(signed_rs.path_error))
    ELSE IF ~vh.ok THEN RErr(vh.err)
    ELSE ROk(<<>>)

-----------------------------------------------------------------------------
(* The peers: what signs the inbound requests and answers the key fetches *)

\* the strings of the requests of the model: key ids, header names and values, and the strings a peer signs
Sample ==
    [ remote_key_id |->
          <<"h","t","t","p","s",":","/","/","h","o","t","d","o","g",".","p","l","a","c","e","/","u","s","e","r","s","/","r","e","n","n","i","n","g","#","m","a","i","n","-","k","e","y">>,
      rsa_sha256 |->
          <<"r","s","a","-","s","h","a","2","5","6">>,
      algorithm |->
          <<"a","l","g","o","r","i","t","h","m">>,
      host |->
          <<"h","o","s","t">>,
      date |->
          <<"d","a","t","e">>,
      covered |->
          <<"(","r","e","q","u","e","s","t","-","t","a","r","g","e","t",")"," ","h","o","s","t">>,
      covered_date |->
          <<"(","r","e","q","u","e","s","t","-","t","a","r","g","e","t",")"," ","h","o","s","t"," ","d","a","t","e">>,
      covered_upper |->
          <<"(","R","e","q","u","e","s","t","-","T","a","r","g","e","t",")"," ","h","o","s","t">>,
      hostname |->
          <<"a","p",".","r","e","n","s",".","p","a","g","e">>,
      peer |->
          <<"p","e","e","r">>,
      signed_a |->
          <<"(","r","e","q","u","e","s","t","-","t","a","r","g","e","t",")",":"," ","p","o","s","t"," ","/","u","s","e","r","s","/","a","/","i","n","b","o","x",LF,"h","o","s","t",":"," ","a","p",".","r","e","n","s",".","p","a","g","e">>,
      signed_a_date |->
          <<"(","r","e","q","u","e","s","t","-","t","a","r","g","e","t",")",":"," ","p","o","s","t"," ","/","u","s","e","r","s","/","a","/","i","n","b","o","x",LF,"h","o","s","t",":"," ","a","p",".","r","e","n","s",".","p","a","g","e",LF,"d","a","t","e",":"," ">>,
      signed_other |->
          <<"(","r","e","q","u","e","s","t","-","t","a","r","g","e","t",")",":"," ","p","o","s","t"," ","/","u","s","e","r","s","/","b","/","i","n","b","o","x",LF,"h","o","s","t",":"," ","a","p",".","r","e","n","s",".","p","a","g","e">>,
      signed_upper |->
          <<"(","r","e","q","u","e","s","t","-","t","a","r","g","e","t",")",":"," ",LF,"h","o","s","t",":"," ","a","p",".","r","e","n","s",".","p","a","g","e">>,
      owner |->
          users_rs.users_prefix \o <<"a">> ]

Peer == [key |-> 200, other |-> 201]
PeerSignature(text) == EncodeBytes(RsaSign("pkcs1v15", Peer.key, as_bytes(text), 0))

LocalKeyId(id) == users_rs.users_prefix \o id \o key_rs.main_key
IsLocal(key_id) == StartsWith(key_id, users_rs.users_prefix)

Param(key, value) == key \o <<"=", DQ>> \o value \o <<DQ>>

SignatureValue(key_id, covered, sig) ==
    Param(signature_rs.keyId, key_id) \o <<",">> \o Param(Sample.algorithm, Sample.rsa_sha256) \o <<",">>
    \o Param(signature_rs.headers, covered) \o <<",">> \o Param(signature_rs.signature, sig)

Headers(sig) == (Sample.host :> Sample.hostname) @@ (signature_rs.signature :> sig)

Inbound(path_ok, actor, headers) == [path_ok |-> path_ok, actor |-> actor, headers |-> headers]

\* the inbound requests of the model
Requests ==
    << \* the path holds no person id
       Inbound(FALSE, <<>>, Headers(SignatureValue(Sample.remote_key_id, Sample.covered, PeerSignature(Sample.signed_a)))),
       \* no Signature header
       Inbound(TRUE, <<"a">>, (Sample.host :> Sample.hostname)),
       \* a Signature header that is no visible ASCII
       Inbound(TRUE, <<"a">>, Headers(<<"k", NonAscii>>)),
       \* no signature parameter
       Inbound(TRUE, <<"a">>, Headers(Param(signature_rs.keyId, Sample.remote_key_id) \o <<",">>
                                      \o Param(signature_rs.headers, Sample.covered))),
       \* a signature that is no base64
       Inbound(TRUE, <<"a">>, Headers(SignatureValue(Sample.remote_key_id, Sample.covered, <<"@", "@">>))),
       \* a remote signer, signed as the peers sign
       Inbound(TRUE, <<"a">>, Headers(SignatureValue(Sample.remote_key_id, Sample.covered, PeerSignature(Sample.signed_a)))),
       \* a remote signer, the signature of another string
       Inbound(TRUE, <<"a">>, Headers(SignatureValue(Sample.remote_key_id, Sample.covered, PeerSignature(Sample.signed_other)))),
       \* a signer hosted here
       Inbound(TRUE, <<"a">>, Headers(SignatureValue(LocalKeyId(<<"b">>), Sample.covered, PeerSignature(Sample.signed_a)))),
       \* a signer hosted here, a signature that is no base64
       Inbound(TRUE, <<"a">>, Headers(SignatureValue(LocalKeyId(<<"b">>), Sample.covered, <<"@", "@">>))),
       \* the legacy prefix, and a last parameter whose quote never closes
       Inbound(TRUE, <<"a">>, Headers(signature_rs.Signature_
                                      \o SignatureValue(Sample.remote_key_id, Sample.covered, PeerSignature(Sample.signed_a))
                                      \o <<",", "x", "=", DQ, "u">>)),
       \* a covered header the request does not carry
       Inbound(TRUE, <<"a">>, Headers(SignatureValue(Sample.remote_key_id, Sample.covered_date,
                                                     PeerSignature(Sample.signed_a_date)))),
       \* the pseudo-header named in upper case, signed as the server rebuilds it
       Inbound(TRUE, <<"a">>, Headers(SignatureValue(Sample.remote_key_id, Sample.covered_upper,
                                                     PeerSignature(Sample.signed_upper)))),
       \* bare tokens for values
       Inbound(TRUE, <<"a">>, Headers(signature_rs.keyId \o <<"=">> \o Sample.peer \o <<",">>
                                      \o signature_rs.headers \o <<"=">> \o Sample.host \o <<",">>
                                      \o signature_rs.signature \o <<"=", "Y", "W", "J", "j">>)),
       \* a delivery to the inbox of b
       Inbound(TRUE, <<"b">>, Headers(SignatureValue(Sample.remote_key_id, Sample.covered,
                                                     PeerSignature(Sample.signed_other)))),
       \* keyId given twice
       Inbound(TRUE, <<"a">>, Headers(Param(signature_rs.keyId, Sample.peer) \o <<",">>
                                      \o SignatureValue(Sample.remote_key_id, Sample.covered,
                                                        PeerSignature(Sample.signed_a)))),
       \* a remote signer, the signature the peers make cut short by its last byte
       Inbound(TRUE, <<"a">>, Headers(SignatureValue(Sample.remote_key_id, Sample.covered,
                  LET sig == RsaSign("pkcs1v15", Peer.key, as_bytes(Sample.signed_a), 0)
                  IN  EncodeBytes(SubSeq(sig, 1, Len(sig) - 1))))),
       \* a remote signer that signs with RSASSA-PSS
       Inbound(TRUE, <<"a">>, Headers(SignatureValue(Sample.remote_key_id, Sample.covered,
                  EncodeBytes(RsaSign("pss", Peer.key, as_bytes(Sample.signed_a), 0))))) >>

ActorDoc(status, has, pem) ==
    [net |-> TRUE, status |-> status, json |-> TRUE, has |-> has,
     publicKey |-> [id |-> Sample.remote_key_id, owner |-> Sample.remote_key_id, public_key_pem |-> pem]]

\* the answers a key fetch can get
Answers ==
    { NoAnswer,
      ActorDoc(200, {"id", "inbox", "publicKey"}, to_public_key_pem(Peer.key)),
      ActorDoc(200, {"id", "inbox", "publicKey"}, to_public_key_pem(Peer.other)),
      ActorDoc(200, {"id", "inbox", "publicKey"}, GarbagePem),
      ActorDoc(200, {"id", "inbox"}, GarbagePem),
      [net |-> TRUE, status |-> 404, json |-> FALSE, has |-> {}, publicKey |-> NoPublicKey],
      ActorDoc(404, {"id", "inbox", "publicKey"}, to_public_key_pem(Peer.key)) }

-----------------------------------------------------------------------------
(* The POST /users/:id/inbox requests: crates/rap-server/src/inbox.rs behind *)
(* the Signed extractor                                                     *)

Reqs == 1..MaxReqs

NoVh == VhState(FALSE, ROk(<<>>), <<>>, <<>>, NoSignature, <<>>, <<>>)

IdleReq == [st |-> "idle", n |-> 0, vh |-> NoVh, fetched |-> <<>>, got |-> NoAnswer,
            signed |-> FALSE, ran |-> FALSE, resp |-> NoResponse]

InitPipe == req = [r \in Reqs |-> IdleReq]

\* the extractor has returned: Ok(Signed) goes on to the body, an error is the response
Extracted(r, n, vh, ex, answer) ==
    req' = [req EXCEPT ![r] =
               [@ EXCEPT !.st = IF ex.ok THEN "signed" ELSE "rejected",
                         !.n = n,
                         !.vh = vh,
                         !.got = answer,
                         !.signed = ex.ok,
                         !.resp = IF ex.ok THEN NoResponse ELSE ex.err]]

\* verify_headers_begin on each inbound request of the model
Begun == [n \in DOMAIN Requests |->
             verify_headers_begin(Requests[n].headers, Requests[n].actor)]

\* a faulty variant: no request for a key that an earlier verification was
\* answered with
fetch_request_cached(key_id) ==
    IF \E r \in DOMAIN req : /\ req[r].vh.done
                              /\ req[r].vh.signature.key_id = key_id
                              /\ from_remote(req[r].got).ok
    THEN <<>> ELSE <<key_id>>

\* a variant: no request for the key of an actor hosted here
fetch_local_from_store(key_id) == IF IsLocal(key_id) THEN <<>> ELSE <<key_id>>

\* the GET requests PublicKey::from_remote(&signature.key_id) sends: one, to the
\* key id as the header gave it
fetch_request(key_id) == <<key_id>>

\* a faulty variant: the people lock taken before the key fetch and held across
\* the await
receive_under_lock(r, n) ==
    /\ req[r].st = "idle"
    /\ \E inb \in {Requests[n]} :
         \E vh \in {Begun[n]} :
           IF inb.path_ok /\ ~vh.done
           THEN /\ MutexFree
                /\ lockHolder' = 0 - r
                /\ req' = [req EXCEPT ![r] =
                              [@ EXCEPT !.st = "fetching", !.n = n, !.vh = vh,
                                        !.fetched = @ \o fetch_request(vh.signature.key_id)]]
           ELSE /\ Extracted(r, n, IF inb.path_ok THEN vh ELSE NoVh,
                             from_request_parts(inb.path_ok, vh.res), NoAnswer)
                /\ UNCHANGED lockHolder
    /\ UNCHANGED <<people, task, nextKey, generated, parseVars, ck>>

\* a request arrives: from_request_parts up to the key fetch, or to its rejection
receive(r, n) ==
    /\ req[r].st = "idle"
    /\ \E inb \in {Requests[n]} :
         \E vh \in {Begun[n]} :
           IF inb.path_ok /\ ~vh.done
           THEN req' = [req EXCEPT ![r] =
                           [@ EXCEPT !.st = "fetching", !.n = n, !.vh = vh,
                                     !.fetched = @ \o fetch_request(vh.signature.key_id)]]
           ELSE Extracted(r, n, IF inb.path_ok THEN vh ELSE NoVh,
                          from_request_parts(inb.path_ok, vh.res), NoAnswer)
    /\ UNCHANGED <<storeVars, parseVars, ck>>

\* the key fetch ends with an answer: verify_headers runs to its end
fetch_done(r, answer) ==
    /\ req[r].st = "fetching"
    /\ \E vh \in {verify_headers_end(req[r].vh, answer)} :
           Extracted(r, req[r].n, vh, from_request_parts(TRUE, vh.res), answer)
    /\ UNCHANGED <<storeVars, parseVars, ck>>

\* rap-server/src/inbox.rs: the key fetch of its verify_headers ends with an
\* answer; json answers with the rejection or, verified, with Not implemented.
\* ck keeps which requests this implementation served
fetch_done_inbox(r, answer) ==
    /\ req[r].st = "fetching"
    /\ \E vh \in {verify_headers_end_inbox(Requests[req[r].n].headers, req[r].vh, answer)} :
         req' = [req EXCEPT ![r] =
                    [@ EXCEPT !.st = IF vh.res.ok THEN "done" ELSE "rejected",
                              !.vh = vh,
                              !.got = answer,
                              !.ran = vh.res.ok,
                              !.resp = IF vh.res.ok THEN web_err(501, inbox_rs.Not_implemented)
                                       ELSE vh.res.err]]
    /\ ck' = [stage |-> "inbox.rs",
              served |-> (IF ck.stage = "inbox.rs" THEN ck.served ELSE {}) \cup {r}]
    /\ UNCHANGED <<storeVars, parseVars>>

\* the request is aborted while PublicKey::from_remote(..).await is pending: the
\* future of from_request_parts is dropped with its locals, and nothing is answered
cancel(r) ==
    /\ req[r].st = "fetching"
    /\ req' = [req EXCEPT ![r] = [@ EXCEPT !.st = "cancelled", !.vh = NoVh]]
    /\ UNCHANGED <<storeVars, parseVars, ck>>

\* the Json<Value> extractor, after Signed: a body that is no JSON is rejected
json_body(r, body_ok) ==
    /\ req[r].st = "signed"
    /\ req' = [req EXCEPT ![r] =
                  IF body_ok THEN [@ EXCEPT !.st = "handler"]
                  ELSE [@ EXCEPT !.st = "rejected", !.resp = web_err(400, inbox_rs.body_error)]]
    /\ UNCHANGED <<storeVars, parseVars, ck>>

\* inbox::json: the handler body
inbox_json(r) ==
    /\ req[r].st = "handler"
    /\ req' = [req EXCEPT ![r] =
                  [@ EXCEPT !.st = "done", !.ran = TRUE,
                            !.resp = web_err(501, inbox_rs.Not_implemented)]]
    /\ UNCHANGED <<storeVars, parseVars, ck>>

-----------------------------------------------------------------------------
(* The people store under concurrent GET /users/:id requests *)

NoOutcome == [by |-> "none"]
NoCheck == [stage |-> "none"]

Idle ==
    /\ InitStore
    /\ InitPipe
    /\ pin = <<>>
    /\ pout = NoOutcome
    /\ ck = NoCheck

NextStore ==
    \/ \E t \in Tasks, actor \in ActorIds : users_json(t, actor)
    \/ \E t \in Tasks : lock(t)
    \/ \E t \in Tasks : contains_key(t)
    \/ \E t \in Tasks, rnd \in {0, nextKey} : new_person(t, rnd)
    \/ \E t \in Tasks : insert(t)
    \/ \E t \in Tasks : get_clone(t)
    \/ \E t \in Tasks : respond(t)

SpecStore == Idle /\ [][NextStore]_vars

\* the same under the scheduling of the tokio runtime: a task that can take a step
\* takes it, and the Mutex, which queues its waiters, passes no waiter over forever
SpecStoreFair ==
    /\ SpecStore
    /\ \A t \in Tasks :
          /\ SF_vars(lock(t))
          /\ WF_vars(contains_key(t))
          /\ WF_vars(\E rnd \in {0, nextKey} : new_person(t, rnd))
          /\ WF_vars(insert(t))
          /\ WF_vars(get_clone(t))
          /\ WF_vars(respond(t))

-----------------------------------------------------------------------------
(* The inbox under concurrent signed requests *)

NextPipe ==
    \/ \E r \in Reqs, n \in DOMAIN Requests : receive(r, n)
    \/ \E r \in Reqs, answer \in Answers : fetch_done(r, answer)
    \/ \E r \in Reqs, body_ok \in BOOLEAN : json_body(r, body_ok)
    \/ \E r \in Reqs : inbox_json(r)

SpecPipe == Idle /\ [][NextPipe]_vars

-----------------------------------------------------------------------------
(* The Signed extractor on requests that repeat: MaxReplays verifications,   *)
(* each of one of a few of the inbound requests, the same one or not, with   *)
(* whatever answer its key fetch gets                                        *)

InitReplay ==
    /\ InitStore
    /\ req = [r \in 1..MaxReplays |-> IdleReq]
    /\ pin = <<>>
    /\ pout = NoOutcome
    /\ ck = NoCheck

\* the requests repeated: the one without a Signature header, the one signed as
\* the peers sign, the one that carries the signature of another string, the one
\* whose signer is hosted here, the one whose signature is cut short
NextReplay ==
    \/ \E r \in 1..MaxReplays, n \in {2, 6, 7, 8, 16} : receive(r, n)
    \/ \E r \in 1..MaxReplays, answer \in Answers : fetch_done(r, answer)

SpecReplay == InitReplay /\ [][NextReplay]_vars

-----------------------------------------------------------------------------
(* The two routes side by side: MaxReplays signed deliveries to the inbox,   *)
(* each signed as the peers sign and answered with the key of the signer or  *)
(* with nothing, or aborted while its key fetch is pending, and MaxReplays   *)
(* GET /users/:id requests                                                   *)

NextServe ==
    \/ \E r \in 1..MaxReplays : receive(r, 6)
    \/ \E r \in 1..MaxReplays,
          answer \in {NoAnswer, ActorDoc(200, {"id", "inbox", "publicKey"}, to_public_key_pem(Peer.key))} :
              fetch_done(r, answer)
    \/ \E r \in 1..MaxReplays : cancel(r)
    \/ \E t \in 1..MaxReplays, actor \in ActorIds : users_json(t, actor)
    \/ \E t \in 1..MaxReplays : lock(t)
    \/ \E t \in 1..MaxReplays : contains_key(t)
    \/ \E t \in 1..MaxReplays : new_person(t, nextKey)
    \/ \E t \in 1..MaxReplays : insert(t)
    \/ \E t \in 1..MaxReplays : get_clone(t)

SpecServe == InitReplay /\ [][NextServe]_vars

-----------------------------------------------------------------------------
(* The two implementations of the pipeline, the Signed extractor and the     *)
(* verify_headers of rap-server/src/inbox.rs, on the inbound requests of the *)
(* model                                                                     *)

NextInbox ==
    \/ \E r \in Reqs, n \in DOMAIN Requests : receive(r, n)
    \/ \E r \in Reqs, answer \in Answers : fetch_done(r, answer)
    \/ \E r \in Reqs, answer \in Answers : fetch_done_inbox(r, answer)

SpecInbox == Idle /\ [][NextInbox]_vars

-----------------------------------------------------------------------------
(* The header parsers alone, on header values made of up to MaxSegments      *)
(* parameters                                                               *)

\* the parameters the header values under parse are made of: the three required
\* ones, one whose quote never closes, one with a bare token for a value
Segments ==
    << Param(signature_rs.keyId, <<"k">>),
       Param(signature_rs.headers, <<"h", " ", "d">>),
       Param(signature_rs.signature, <<"c", "w", "=", "=">>),
       <<"x", "=", DQ, "u">>,
       Sample.algorithm \o <<"=", "r", "s", "a">> >>

\* up to MaxSegments of them joined by commas, with or without the "Signature "
\* prefix
HeaderInputs ==
    { (IF prefix THEN signature_rs.Signature_ ELSE <<>>)
          \o Join([i \in DOMAIN ss |-> Segments[ss[i]]], <<",">>) :
      prefix \in BOOLEAN,
      ss \in UNION {[1..n -> DOMAIN Segments] : n \in 0..MaxSegments} }

InitParse ==
    /\ InitStore
    /\ InitPipe
    /\ pin \in HeaderInputs
    /\ pout = NoOutcome
    /\ ck = NoCheck

\* crates/rap-server/src/signature.rs: Signature::from_headers(pin)
Signature_from_headers ==
    /\ pout.by = "none"
    /\ pout' = [by |-> "crates", res |-> from_headers(pin)]
    /\ UNCHANGED <<storeVars, req, pin, ck>>

\* rap-server/src/signature.rs: Signature::from_headers(pin)
Signature_from_headers_unwrap ==
    /\ pout.by = "none"
    /\ pout' = [by |-> "legacy", res |-> from_headers_unwrap(pin)]
    /\ UNCHANGED <<storeVars, req, pin, ck>>

NextParse ==
    \/ Signature_from_headers
    \/ Signature_from_headers_unwrap

SpecParse == InitParse /\ [][NextParse]_vars

\* the keys of the parameters params reads from a header value
ParsedKeys(h) == {params(h).out[i][1] : i \in DOMAIN params(h).out}

Required == <<signature_rs.keyId, signature_rs.headers, signature_rs.signature>>

\* a quoted string is left open: the quotes of h that no backslash precedes are
\* odd in number
Unterminated(h) ==
    Cardinality({i \in DOMAIN h : h[i] = DQ /\ (i = 1 \/ h[i - 1] # BS)}) % 2 = 1

-----------------------------------------------------------------------------
(* The quoted-string parser alone, on every content of up to MaxContent      *)
(* characters between two quotes                                            *)

Contents == UNION {[1..n -> {"a", SP, ",", BS, DQ}] : n \in 0..MaxContent}

Content(q) == SubSeq(q, 2, Len(q) - 1)

\* keyId=<q>,headers=<q>
TwoParams(q) == signature_rs.keyId \o <<"=">> \o q \o <<",">> \o signature_rs.headers \o <<"=">> \o q

InitQuoted ==
    /\ InitStore
    /\ InitPipe
    /\ pin \in {<<DQ>> \o c \o <<DQ>> : c \in Contents}
    /\ pout = NoOutcome
    /\ ck = NoCheck

\* quoted_string(pin)
parse_quoted_string ==
    /\ pout.by = "none"
    /\ pout' = [by |-> "quoted_string", res |-> quoted_string(pin)]
    /\ UNCHANGED <<storeVars, req, pin, ck>>

\* params on two parameters whose values are pin
parse_params ==
    /\ pout.by = "none"
    /\ pout' = [by |-> "params", res |-> params(TwoParams(pin))]
    /\ UNCHANGED <<storeVars, req, pin, ck>>

NextQuoted ==
    \/ parse_quoted_string
    \/ parse_params

SpecQuoted == InitQuoted /\ [][NextQuoted]_vars

\* the content of a quoted string is well formed: every backslash is followed by
\* the character it escapes, and no quote stands unescaped
RECURSIVE WellQuoted(_)
WellQuoted(c) ==
    IF c = <<>> THEN TRUE
    ELSE IF c[1] = BS THEN Len(c) >= 2 /\ WellQuoted(DropN(c, 2))
    ELSE c[1] # DQ /\ WellQuoted(Tail(c))

\* the content with each backslash-escape pair replaced by the escaped character
RECURSIVE Unescaped(_)
Unescaped(c) ==
    IF c = <<>> THEN <<>>
    ELSE IF c[1] = BS THEN <<c[2]>> \o Unescaped(DropN(c, 2))
    ELSE <<c[1]>> \o Unescaped(Tail(c))

-----------------------------------------------------------------------------
(* rebuild_sig_str alone, on every list of up to MaxCovered covered header   *)
(* names, for the accounts and over the header maps of the model             *)

\* the arguments of rebuild_sig_str: covered names in either case, the pseudo-header
\* among them; header maps without, with one and with two headers, and with a value
\* that is no visible ASCII
InitBuild ==
    /\ InitStore
    /\ InitPipe
    /\ pin \in [ account : ActorIds,
                 headers : { [x \in {} |-> <<>>],
                             (Sample.host :> Sample.hostname),
                             (Sample.host :> Sample.hostname) @@ (Sample.date :> <<"1">>),
                             (Sample.host :> <<"k", NonAscii>>) },
                 covered : UNION { [1..n -> { signed_rs.request_target,
                                              SubSeq(Sample.covered_upper, 1, Len(signed_rs.request_target)),
                                              Sample.host,
                                              <<"H", "o", "s", "t">>,
                                              Sample.date }] : n \in 1..MaxCovered } ]
    /\ pout = NoOutcome
    /\ ck = NoCheck

\* rebuild_sig_str(&person_id, &headers, &signature), the Signature holding the
\* covered names and nothing else
test_rebuild_sig_str ==
    /\ pout.by = "none"
    /\ pout' = [by |-> "rebuild_sig_str",
                res |-> rebuild_sig_str(pin.account, pin.headers,
                                        [key_id |-> <<>>, headers |-> pin.covered,
                                         signature |-> <<>>])]
    /\ UNCHANGED <<storeVars, req, pin, ck>>

NextBuild == test_rebuild_sig_str

SpecBuild == InitBuild /\ [][NextBuild]_vars

-----------------------------------------------------------------------------
(* The keys alone: a key is made, signs a message, and a public key verifies *)
(* the signature against a message, in either implementation of Key         *)

Impls == {"crates", "legacy"}

Messages == UNION {[1..n -> {97, 98}] : n \in 0..MaxMessage}

\* Key::new(owner): rnd is the private key the random source yields, 0 its failure
new_key(impl, rnd) ==
    /\ ck.stage = "none"
    /\ \E k \in {IF impl = "crates" THEN Key_new(Sample.owner, rnd) ELSE Key_new_pss(Sample.owner, rnd)} :
         ck' = IF k.ok THEN [stage |-> "keyed", impl |-> impl, key |-> k.val]
               ELSE [stage |-> "failed", impl |-> impl]
    /\ UNCHANGED <<storeVars, req, parseVars>>

\* key.sign(data)
sign_message(data, salt) ==
    /\ ck.stage = "keyed"
    /\ \E sig \in {IF ck.impl = "crates" THEN Key_sign(ck.key, data, salt)
                   ELSE Key_sign_pss(ck.key, data, salt)} :
         ck' = IF sig.ok
               THEN [stage |-> "signed", impl |-> ck.impl, key |-> ck.key,
                     data |-> data, sig |-> sig.val]
               ELSE [stage |-> "failed", impl |-> ck.impl]
    /\ UNCHANGED <<storeVars, req, parseVars>>

\* key.public_key()?.verify(data, &sig), by the PublicKey of either implementation
verify_message(with, data) ==
    /\ ck.stage = "signed"
    /\ \E pubkey \in {IF ck.impl = "crates" THEN Key_public_key(ck.key)
                      ELSE Key_public_key_pss(ck.key)} :
         \E verdict \in {IF with = "crates" THEN PublicKey_verify(pubkey, data, ck.sig)
                         ELSE PublicKey_verify_pss(pubkey, data, ck.sig)} :
           ck' = [stage |-> "verified", impl |-> ck.impl, key |-> ck.key,
                  data |-> ck.data, sig |-> ck.sig,
                  with |-> with, against |-> data, verdict |-> verdict]
    /\ UNCHANGED <<storeVars, req, parseVars>>

NextCrypto ==
    \/ \E impl \in Impls, rnd \in 0..MaxKeys : new_key(impl, rnd)
    \/ \E data \in Messages, salt \in 0..MaxSalt : sign_message(data, salt)
    \/ \E with \in Impls, data \in Messages : verify_message(with, data)

SpecCrypto == Idle /\ [][NextCrypto]_vars

-----------------------------------------------------------------------------
(* Properties *)

\* C1: under every interleaving of get_or_create calls, at most one keypair is
\* generated for an actor id, and the calls that returned for the same id returned
\* the same person, hence the same keypair
OneKeypairPerActor ==
    /\ \A i, j \in DOMAIN generated : generated[i][1] = generated[j][1] => i = j
    /\ \A t, u \in Tasks :
         /\ task[t].pc \in {"returned", "done"}
         /\ task[u].pc \in {"returned", "done"}
         /\ task[t].id = task[u].id
         => task[t].person = task[u].person

\* two concurrent calls for the same id have both returned, one keypair was generated
TwoCallsOneKeypair ==
    \E t, u \in Tasks :
        /\ t # u
        /\ task[t].pc = "done"
        /\ task[u].pc = "done"
        /\ task[t].id = task[u].id
        /\ Len(generated) = 1
        /\ task[t].person.key = task[u].person.key

PipelineOrder == <<"extract", "parse", "decode", "build", "resolve", "verify">>

\* C2: the body of the inbox handler runs only for a request the extractor answered
\* with Signed; Signed is answered only when verify_headers ran all its steps and
\* returned success, the signature verifying under the fetched key against the
\* rebuilt string; a rejected request carries an error response and its handler
\* body has not run
HandlerOnlyWhenVerified ==
    \A r \in Reqs :
        /\ req[r].ran => req[r].signed
        /\ req[r].st \in {"signed", "handler", "done"} => req[r].signed
        /\ req[r].signed =>
              /\ req[r].vh.done
              /\ req[r].vh.res.ok
              /\ req[r].vh.steps = PipelineOrder
              /\ PublicKey_verify(req[r].got.publicKey, as_bytes(req[r].vh.comparison),
                                  req[r].vh.decoded).ok
        /\ req[r].st = "rejected" => ~req[r].ran /\ req[r].resp.status \in {400, 500}

\* a verified request whose handler body has run and answered
HandlerRan ==
    \E r \in Reqs : req[r].ran /\ req[r].signed /\ req[r].resp.status = 501

IsPrefix(s, t) == Len(s) <= Len(t) /\ SubSeq(t, 1, Len(s)) = s

\* the messages a failure of each step starts with
Reasons(step) ==
    CASE step = "extract" -> {signed_rs.No_header, signed_rs.Invalid_header}
      [] step = "parse" -> {signed_rs.Error_parsing}
      [] step = "decode" -> {signed_rs.Error_decoding}
      [] step = "resolve" -> {signed_rs.Error_loading}
      [] step = "verify" -> {signed_rs.Error_verifying}
      [] OTHER -> {}

\* C3, as the code has it: the steps run in the order extract, parse, base64-decode,
\* build, resolve, verify; a failure ends the run with the message of the step that
\* failed; a signature value that is no base64 is rejected as such before any key is
\* resolved, with no fetch made
StepsInOrder ==
    \A r \in Reqs :
        /\ IsPrefix(req[r].vh.steps, PipelineOrder)
        /\ req[r].vh.done /\ ~req[r].vh.res.ok =>
              \E reason \in Reasons(req[r].vh.steps[Len(req[r].vh.steps)]) :
                  StartsWith(req[r].vh.res.err.msg, reason)
        /\ ~base64_decode(req[r].vh.signature.signature).ok =>
              /\ req[r].vh.steps = <<"extract", "parse", "decode">>
              /\ req[r].st = "rejected"
              /\ StartsWith(req[r].resp.msg, signed_rs.Error_decoding)
              /\ req[r].fetched = <<>>

\* a request whose signature value is no base64 was rejected at the decoding, its
\* key never asked for
RejectedAtDecode ==
    \E r \in Reqs :
        /\ req[r].st = "rejected"
        /\ req[r].vh.steps = <<"extract", "parse", "decode">>
        /\ ~base64_decode(req[r].vh.signature.signature).ok
        /\ StartsWith(req[r].resp.msg, signed_rs.Error_decoding)
        /\ req[r].fetched = <<>>

\* C3, as the specification words it: the key is resolved before the signature
\* value is base64-decoded
ResolveBeforeDecode ==
    \A r \in Reqs :
        \A i \in DOMAIN req[r].vh.steps :
            req[r].vh.steps[i] = "decode" =>
                \E j \in 1..(i - 1) : req[r].vh.steps[j] = "resolve"

SignVerifyRoundTrip ==
    ck.stage = "verified" =>
        /\ ck.with = ck.impl => (ck.verdict.ok <=> ck.against = ck.data)
        /\ ck.with # ck.impl => ~ck.verdict.ok

\* a signature over a message has verified against it
RoundTripVerified ==
    /\ ck.stage = "verified"
    /\ ck.with = ck.impl
    /\ ck.against = ck.data
    /\ Len(ck.data) > 0
    /\ ck.verdict.ok

\* C6: a request to an inbox that carries no Signature header is rejected with
\* 400 "No header signature", verify_headers having done nothing but look for the
\* header: no parsing, no fetch, no verification, no Signed, no handler body
NoHeaderRejected ==
    \A r \in Reqs :
        /\ req[r].st # "idle"
        /\ Requests[req[r].n].path_ok
        /\ signature_rs.signature \notin DOMAIN Requests[req[r].n].headers
        => /\ req[r].st = "rejected"
           /\ req[r].resp = web_err_400(signed_rs.No_header \o signature_rs.signature)
           /\ req[r].vh.steps = <<"extract">>
           /\ req[r].fetched = <<>>
           /\ ~req[r].signed
           /\ ~req[r].ran

\* a request without the header has been rejected
NoHeaderSeen ==
    \E r \in Reqs :
        /\ req[r].st = "rejected"
        /\ signature_rs.signature \notin DOMAIN Requests[req[r].n].headers
        /\ req[r].resp = web_err_400(signed_rs.No_header \o signature_rs.signature)

\* C7: Signature::from_headers fails whenever keyId, headers or signature is not
\* among the parameters read, with the message "<key> not found" for a key that
\* is missing, and returns a Signature only when all three are there
MissingKeyNamed ==
    pout.by = "crates" =>
        LET missing == {i \in DOMAIN Required : Required[i] \notin ParsedKeys(pin)}
        IN  /\ missing # {} =>
                 /\ ~pout.res.ok
                 /\ \E i \in missing : pout.res.err = Required[i] \o signature_rs.not_found
            /\ pout.res.ok => missing = {}

\* a header value with keyId but without headers has been refused
HeadersNotFound ==
    /\ pout.by = "crates"
    /\ signature_rs.keyId \in ParsedKeys(pin)
    /\ signature_rs.headers \notin ParsedKeys(pin)
    /\ ~pout.res.ok
    /\ pout.res.err = signature_rs.headers \o signature_rs.not_found

\* C8: from_headers, in either implementation, returns a Signature or an error
\* value and does not panic
ParserNeverPanics ==
    pout.by \in {"crates", "legacy"} => ~pout.res.panic

\* C9: from_headers returns no Signature for a header value in which a quoted
\* string is left open, and returns one only when params read the whole value
MalformedQuotingRefused ==
    pout.by = "crates" /\ pout.res.ok =>
        /\ ~Unterminated(pin)
        /\ params(pin).rest = <<>>

\* C10: the value read from a well-formed quoted string is its content with each
\* escape pair replaced by the escaped character and every other character kept;
\* two parameters with such values are read whole and in order
QuotedValueIsContent ==
    WellQuoted(Content(pin)) =>
        /\ pout.by = "quoted_string" =>
              /\ pout.res.ok
              /\ pout.res.rest = <<>>
              /\ pout.res.out = Unescaped(Content(pin))
        /\ pout.by = "params" =>
              pout.res.out = << <<signature_rs.keyId, Unescaped(Content(pin))>>,
                                <<signature_rs.headers, Unescaped(Content(pin))>> >>

\* C11: a header value that starts with "Signature " is read by from_headers, in
\* either implementation, as the parameter list after the prefix is read alone: the
\* same Signature, the same error, or the same panic
PrefixTolerated ==
    StartsWith(pin, signature_rs.Signature_) =>
        LET P == DropN(pin, Len(signature_rs.Signature_))
        IN  /\ pout.by = "crates" => pout.res = from_headers(P)
            /\ pout.by = "legacy" => pout.res = from_headers_unwrap(P)

\* a prefixed header value has been read into a Signature
PrefixedValueRead ==
    /\ pout.by = "crates"
    /\ StartsWith(pin, signature_rs.Signature_)
    /\ pout.res.ok
    /\ pout.res.sig.key_id = <<"k">>

\* C12: the string rebuilt has one line per covered name, in the order of the
\* names, the lines joined by single newlines with none at the end; each line
\* starts with the name in lower case, a colon and a space, and a name the request
\* carries a header for, in whatever case the signer wrote it, is followed by the
\* value of that header
OneLinePerCoveredName ==
    pout.by = "rebuild_sig_str" =>
        LET lines == SplitOn(pout.res, LF)
        IN  /\ Len(lines) = Len(pin.covered)
            /\ pout.res[Len(pout.res)] # LF
            /\ \A i \in DOMAIN pin.covered :
                  LET name == to_lowercase(pin.covered[i])
                  IN  /\ StartsWith(lines[i], name \o <<":", " ">>)
                      /\ (name \in DOMAIN pin.headers /\ to_str(pin.headers[name]).ok)
                          => lines[i] = name \o <<":", " ">> \o pin.headers[name]

\* two header names, the first written in upper case, rebuilt with their values
UpperCaseNameRebuilt ==
    /\ pout.by = "rebuild_sig_str"
    /\ pin.covered = << <<"H", "o", "s", "t">>, Sample.date >>
    /\ pout.res = Sample.host \o <<":", " ">> \o Sample.hostname \o <<LF>>
                  \o Sample.date \o <<":", " ", "1">>

\* C13: for every covered name that is (request-target) in whatever case, the line
\* is the synthesized one, (request-target): post /users/{account}/inbox
PseudoHeaderSynthesized ==
    pout.by = "rebuild_sig_str" =>
        \A i \in DOMAIN pin.covered :
            to_lowercase(pin.covered[i]) = signed_rs.request_target =>
                SplitOn(pout.res, LF)[i]
                    = signed_rs.post_users \o pin.account \o users_rs.inbox

\* C14: a covered header the request does not carry does not stop verify_headers:
\* its line is in the string to compare against, with nothing after the colon and
\* the space; the string built, the key is asked for; no request is rejected for a
\* header other than Signature that it lacks; and a signature that verifies against
\* that string under the key fetched makes the request Signed
AbsentHeaderEmptyValue ==
    \A r \in Reqs :
        req[r].st # "idle" =>
            LET covered == req[r].vh.signature.headers
                carried == DOMAIN Requests[req[r].n].headers
                lines == SplitOn(req[r].vh.comparison, LF)
            IN  /\ /\ "decode" \in Range(req[r].vh.steps)
                   /\ base64_decode(req[r].vh.signature.signature).ok
                   =>
                      /\ "resolve" \in Range(req[r].vh.steps)
                      /\ Len(lines) = Len(covered)
                      /\ \A i \in DOMAIN covered :
                            /\ covered[i] # signed_rs.request_target
                            /\ to_lowercase(covered[i]) \notin carried
                            => lines[i] = to_lowercase(covered[i]) \o <<":", " ">>
                /\ StartsWith(req[r].resp.msg, signed_rs.No_header) =>
                      req[r].resp.msg = signed_rs.No_header \o signature_rs.signature
                /\ /\ "verify" \in Range(req[r].vh.steps)
                   /\ PublicKey_verify(req[r].got.publicKey, as_bytes(req[r].vh.comparison),
                                       req[r].vh.decoded).ok
                   => req[r].signed

\* a request that covers a header it does not carry has been verified
AbsentHeaderVerified ==
    \E r \in Reqs :
        /\ req[r].signed
        /\ Sample.date \in Range(req[r].vh.signature.headers)
        /\ Sample.date \notin DOMAIN Requests[req[r].n].headers

\* C15: a verification that comes to the key resolution sends one request for the
\* key, to the key id of its header, whatever the verifications before it or beside
\* it were answered; it sends no other, and none after an answer that yields no key:
\* the request is rejected
OneFetchPerVerification ==
    \A r \in DOMAIN req :
        /\ "resolve" \in Range(req[r].vh.steps) =>
              /\ Len(req[r].fetched) = 1
              /\ req[r].fetched[1] = req[r].vh.signature.key_id
        /\ Len(req[r].fetched) <= 1
        /\ req[r].vh.done /\ req[r].fetched # <<>> /\ ~from_remote(req[r].got).ok =>
              /\ req[r].st = "rejected"
              /\ StartsWith(req[r].resp.msg, signed_rs.Error_loading)

\* a verification has been answered with a key, and another for the same key id is
\* waiting for the answer to its own request
SameKeyFetchedAgain ==
    \E r, q \in DOMAIN req :
        /\ req[r].vh.done
        /\ from_remote(req[r].got).ok
        /\ req[q].st = "fetching"
        /\ req[q].vh.signature.key_id = req[r].vh.signature.key_id
        /\ req[q].fetched = <<Sample.remote_key_id>>
        /\ req[r].fetched = <<Sample.remote_key_id>>

\* C16: a key fetch whose request fails, whose answer has a status outside 200..299,
\* or whose body is no actor document with id, inbox and publicKey yields no key:
\* the request is rejected with "Error loading public key: ..." and is not Signed
FailedFetchYieldsNoKey ==
    \A r \in Reqs :
        /\ req[r].vh.done
        /\ req[r].fetched # <<>>
        /\ \/ ~req[r].got.net
           \/ req[r].got.status \notin 200..299
           \/ ~req[r].got.json
           \/ ~({"id", "inbox", "publicKey"} \subseteq req[r].got.has)
        => /\ req[r].st = "rejected"
           /\ StartsWith(req[r].resp.msg, signed_rs.Error_loading)
           /\ ~req[r].signed

PublicKeyIdIsMainKey ==
    /\ \A id \in DOMAIN people :
          /\ Key_public_key(people[id].key).owner = people[id].id
          /\ Key_public_key(people[id].key).id
                 = people[id].id \o <<"#", "m", "a", "i", "n", "-", "k", "e", "y">>
    /\ \A t \in Tasks :
          task[t].pc = "done" =>
              /\ task[t].body[1].publicKey.owner = task[t].body[1].id
              /\ task[t].body[1].publicKey.id
                     = task[t].body[1].id \o <<"#", "m", "a", "i", "n", "-", "k", "e", "y">>

\* C19: the store starts empty; no step removes an entry or changes one; it holds
\* entries for ids that were asked for only, and one for the id of every call that
\* returned; a call that returned returned the entry of its id, the person whose
\* keypair is the one generated for that id
StoreOnlyGrows ==
    /\ DOMAIN people = {}
    /\ [][ /\ \A id \in DOMAIN people : id \in DOMAIN people' /\ people'[id] = people[id]
           /\ DOMAIN people' \subseteq {task'[t].id : t \in {u \in Tasks : task'[u].pc # "idle"}}
           /\ \A t \in Tasks :
                 task'[t].pc \in {"returned", "done"} =>
                     /\ task'[t].id \in DOMAIN people'
                     /\ task'[t].person = people'[task'[t].id]
                     /\ \E i \in DOMAIN generated' :
                           /\ generated'[i] = <<task'[t].person.id,
                                                 task'[t].person.key.private_key_pem.key>>
                           /\ \A j \in DOMAIN generated' :
                                 generated'[j][1] = generated'[i][1] => j = i
         ]_vars

\* the store holds two persons, and two calls for one of them have returned its
\* entry
LaterCallReturnsEntry ==
    /\ Cardinality(DOMAIN people) = 2
    /\ \E t, u \in Tasks :
          /\ t # u
          /\ task[t].id = task[u].id
          /\ task[t].pc = "done"
          /\ task[u].pc = "returned"
          /\ task[t].person = people[task[t].id]
          /\ task[u].person = people[task[u].id]

\* C20: the document an actor profile request is answered with has the fields id,
\* type, inbox and publicKey, the first three made of the actor URI; publicKey has
\* the fields id, owner and public_key_pem only, its PEM is a public key PEM, the
\* public half of the stored private key, and is not the private key PEM
PrivateKeyNeverSent ==
    \A t \in Tasks :
        task[t].body # <<>> =>
            LET doc == task[t].body[1]
                stored == people[task[t].id].key
            IN  /\ DOMAIN doc = {"id", "type", "inbox", "publicKey"}
                /\ doc.id = users_rs.users_prefix \o task[t].id
                /\ doc.type = "Person"
                /\ doc.inbox = doc.id \o users_rs.inbox
                /\ DOMAIN doc.publicKey = {"id", "owner", "public_key_pem"}
                /\ doc.publicKey.owner = doc.id
                /\ IsPrefix(doc.id, doc.publicKey.id)
                /\ doc.publicKey.public_key_pem.pem = "PUBLIC KEY"
                /\ doc.publicKey.public_key_pem
                       = to_public_key_pem(to_public_key(stored.private_key_pem.key))
                /\ doc.publicKey.public_key_pem # stored.private_key_pem

\* a profile request has been answered for an actor whose private key is in the store
ProfileAnswered ==
    \E t \in Tasks :
        /\ task[t].pc = "done"
        /\ task[t].body # <<>>
        /\ task[t].id \in DOMAIN people
        /\ from_pkcs8_pem(people[task[t].id].key.private_key_pem).ok
        /\ task[t].body[1].publicKey.public_key_pem = people[task[t].id].key.public_key_pem

\* the verifier refused the signature of request r: its key fetch was answered with
\* a public key that loads, and verify failed
VerificationFailed(r) ==
    /\ req[r].st = "rejected"
    /\ req[r].vh.steps # <<>>
    /\ req[r].vh.steps[Len(req[r].vh.steps)] = "verify"
    /\ from_remote(req[r].got).ok
    /\ from_public_key_pem(from_remote(req[r].got).val.public_key_pem).ok

\* the signature request r carries, as the bytes the peer with private key k makes
\* for the string given
CarriesSignatureOf(r, k, text) ==
    req[r].vh.decoded = RsaSign("pkcs1v15", k, as_bytes(text), 0)

\* C21: a signature of another string, a signature checked against another key and
\* signature bytes cut short or made of anything are refused with one and the same
\* answer: any two requests the verifier refused got the same status and the same
\* text, the text of the one verification error
SameVerificationFailure ==
    \A r1, r2 \in DOMAIN req :
        VerificationFailed(r1) /\ VerificationFailed(r2) =>
            /\ req[r1].resp = req[r2].resp
            /\ req[r1].resp
                   = web_err_400(signed_rs.Error_verifying \o crypto_rs.verification_error)

\* two requests refused by the verifier: one carries the signature of the string
\* the server rebuilds, made with the key the fetch answered, cut short by a byte;
\* the other carries a whole signature and is checked against another key or
\* carries the whole signature of another string
ThreeWaysToFail ==
    \E r1, r2 \in DOMAIN req :
        /\ VerificationFailed(r1) /\ VerificationFailed(r2)
        /\ req[r1].got.publicKey.public_key_pem = to_public_key_pem(Peer.key)
        /\ req[r1].vh.decoded # <<>>
        /\ LET whole == RsaSign("pkcs1v15", Peer.key, as_bytes(req[r1].vh.comparison), 0)
           IN  req[r1].vh.decoded = SubSeq(whole, 1, Len(whole) - 1)
        /\ \/ /\ CarriesSignatureOf(r2, Peer.key, req[r2].vh.comparison)
              /\ req[r2].got.publicKey.public_key_pem = to_public_key_pem(Peer.other)
           \/ /\ CarriesSignatureOf(r2, Peer.key, Sample.signed_other)
              /\ req[r2].vh.comparison # Sample.signed_other
              /\ req[r2].got.publicKey.public_key_pem = to_public_key_pem(Peer.key)

\* the string sub stands somewhere in the string s
Occurs(sub, s) == \E i \in 0..(Len(s) - Len(sub)) : SubSeq(s, i + 1, i + Len(sub)) = sub

\* C22: a run of verify_headers that has ended has ended in one of two ways, the
\* request Signed or rejected; a rejection is answered with a reason that is not
\* empty, the reason is logged as a warning, and the warnings logged for the
\* request hold its header context: the value of at least one header it carries
RejectionReasonedAndLogged ==
    \A r \in Reqs :
        req[r].vh.done =>
            /\ req[r].vh.res.ok <=> req[r].signed
            /\ ~req[r].vh.res.ok =>
                  /\ req[r].st = "rejected"
                  /\ req[r].resp = req[r].vh.res.err
                  /\ req[r].resp.msg # <<>>
                  /\ req[r].resp.msg \in Range(req[r].vh.warns)
                  /\ \E h \in DOMAIN Requests[req[r].n].headers :
                        \E w \in Range(req[r].vh.warns) :
                            Occurs(Requests[req[r].n].headers[h], w)

\* the positions of get_or_create between taking the lock and dropping the guard
InCriticalSection == {"locked", "new", "insert", "get"}

\* C23: while the key fetch of a request is pending or after the request was
\* aborted in it, the lock of the people store is free or held by a get_or_create
\* call inside its critical section, never by or for the request; every step
\* another verification or a get_or_create call is waiting to take can be taken:
\* a request that has not arrived can arrive, another pending fetch can be
\* answered, a call can start, a call waiting for the lock gets it when no call
\* holds it, and a call inside the critical section can go on
FetchHoldsNoLock ==
    \A r \in DOMAIN req :
        req[r].st \in {"fetching", "cancelled"} =>
            /\ \/ lockHolder = NoTask
               \/ lockHolder \in Tasks /\ task[lockHolder].pc \in InCriticalSection
            /\ \A r2 \in DOMAIN req \ {r} :
                  /\ req[r2].st = "idle" => ENABLED receive(r2, 6)
                  /\ req[r2].st = "fetching" => ENABLED fetch_done(r2, NoAnswer)
            /\ \A t \in 1..MaxReplays :
                  /\ task[t].pc = "idle" => ENABLED users_json(t, <<"a">>)
                  /\ ( /\ task[t].pc = "lock"
                       /\ \A u \in Tasks : task[u].pc \notin InCriticalSection )
                         => ENABLED lock(t)
                  /\ task[t].pc = "locked" => ENABLED contains_key(t)
                  /\ task[t].pc = "insert" => ENABLED insert(t)
                  /\ task[t].pc = "get" => ENABLED get_clone(t)

\* one request is still waiting for its key, a second one aborted in its fetch,
\* and meanwhile a get_or_create call has created a person and returned, with the
\* lock free again and the store holding that person only
DoneWhileFetchPending ==
    \E r1, r2 \in DOMAIN req :
        /\ req[r1].st = "fetching"
        /\ req[r2].st = "cancelled"
        /\ lockHolder = NoTask
        /\ \E t \in Tasks :
              /\ task[t].pc = "returned"
              /\ DOMAIN people = {task[t].id}

\* C24: in either implementation the verifier gets the rebuilt string as the
\* message and the decoded bytes as the signature: a request whose key loaded is
\* verified exactly when the bytes it carries are a signature of the string the
\* server rebuilt, in the scheme of the implementation, under the key fetched
VerifierArgumentsInOrder ==
    \A r \in Reqs :
        ( /\ req[r].vh.done
          /\ req[r].vh.steps # <<>>
          /\ req[r].vh.steps[Len(req[r].vh.steps)] = "verify"
          /\ from_public_key_pem(req[r].got.publicKey.public_key_pem).ok )
        => ( req[r].vh.res.ok <=>
                RsaVerify(IF ck.stage = "inbox.rs" /\ r \in ck.served THEN "pss" ELSE "pkcs1v15",
                          req[r].got.publicKey.public_key_pem.key,
                          as_bytes(req[r].vh.comparison), req[r].vh.decoded) )

\* for each inbound request of the model: whether its path holds a person id, its
\* Signature header is found as visible ASCII, the header parses and its signature
\* value decodes as base64, and the key id the header gives
Decodable ==
    [n \in DOMAIN Requests |->
        LET inb == Requests[n]
            h == header_str(inb.headers, signature_rs.signature)
            s == from_headers(h.val)
        IN  [ok |-> /\ inb.path_ok
                    /\ h.ok
                    /\ s.ok
                    /\ base64_decode(s.sig.signature).ok,
             key_id |-> IF h.ok /\ s.ok THEN s.sig.key_id ELSE <<>>]]

\* C25: in either implementation a key is asked for exactly when the request
\* carries a Signature header that is visible ASCII, the header parses, and its
\* signature value decodes as base64; a request rejected before that has sent
\* nothing, and no request sends more than one
FetchOnlyAfterDecode ==
    \A r \in Reqs :
        req[r].n # 0 =>
            /\ Len(req[r].fetched) <= 1
            /\ req[r].fetched # <<>> <=> Decodable[req[r].n].ok
            /\ req[r].fetched # <<>> => req[r].fetched[1] = Decodable[req[r].n].key_id

\* a request whose Signature header is found and does not parse has been rejected
\* with no key asked for
MalformedHeaderNoFetch ==
    \E r \in Reqs :
        /\ req[r].st = "rejected"
        /\ req[r].n # 0
        /\ Requests[req[r].n].path_ok
        /\ header_str(Requests[req[r].n].headers, signature_rs.signature).ok
        /\ ~from_headers(Requests[req[r].n].headers[signature_rs.signature]).ok
        /\ StartsWith(req[r].resp.msg, signed_rs.Error_parsing)
        /\ req[r].fetched = <<>>

\* C26: the step in which the key generation of a call fails leaves the store as
\* it was, with no entry for the id of the call, and the lock free; and in every
\* state after such a failure the lock is free or held by a call inside its
\* critical section, a call waiting for the lock gets it when no call holds it,
\* and a call that holds it can go on
KeyFailureLeavesStoreUsable ==
    /\ [][ \A t \in Tasks :
             task[t].pc = "new" /\ task'[t].pc = "panicked" =>
                 /\ people' = people
                 /\ task[t].id \notin DOMAIN people'
                 /\ lockHolder' = NoTask
                 /\ generated' = generated
         ]_vars
    /\ [] ( (\E t \in Tasks : task[t].pc = "panicked") =>
              /\ \/ lockHolder = NoTask
                 \/ lockHolder \in Tasks /\ task[lockHolder].pc \in InCriticalSection
              /\ \A u \in Tasks :
                    /\ task[u].pc = "idle" => \A id \in ActorIds : ENABLED users_json(u, id)
                    /\ ( /\ task[u].pc = "lock"
                         /\ \A v \in Tasks : task[v].pc \notin InCriticalSection )
                           => ENABLED lock(u)
                    /\ task[u].pc = "locked" => ENABLED contains_key(u)
                    /\ task[u].pc = "new" => ENABLED new_person(u, nextKey)
                    /\ task[u].pc = "insert" => ENABLED insert(u)
                    /\ task[u].pc = "get" => ENABLED get_clone(u) )

\* the key generation of a call failed, and later calls, one for the same id and
\* one for another, have returned the persons they found or made
ReturnedAfterKeyFailure ==
    \E t, u, v \in Tasks :
        /\ task[t].pc = "panicked"
        /\ task[u].pc \in {"returned", "done"}
        /\ task[v].pc \in {"returned", "done"}
        /\ task[u].id = task[t].id
        /\ task[v].id # task[t].id
        /\ task[u].person = people[task[u].id]
        /\ task[v].person = people[task[v].id]
        /\ lockHolder = NoTask

\* C27: under fair scheduling every get_or_create call that waits for the lock
\* comes to its end, returning its person or failing in the key generation; a
\* call that holds the lock lets go of it; and a call ends in a failure from the
\* key generation only
EveryCallReturns ==
    /\ \A t \in Tasks :
          /\ (task[t].pc = "lock") ~> (task[t].pc \in {"returned", "done", "panicked"})
          /\ (lockHolder = t) ~> (lockHolder # t)
    /\ [][ \A t \in Tasks :
             task'[t].pc = "panicked" => task[t].pc \in {"new", "panicked"} ]_vars

\* every task has made a call, for one id and for another, and every call has
\* returned, with the lock free
AllCallsReturned ==
    /\ \A t \in Tasks : task[t].pc \in {"returned", "done"}
    /\ \E t, u \in Tasks : task[t].id # task[u].id
    /\ lockHolder = NoTask

=============================================================================
